---- MODULE Spec2Model ----
(***************************************************************************)
(* Model of reset.py (Windsurf device-id reset tool): the interactive main *)
(* loop, reset_windsurf_id, backup_file, view_current_config and the part  *)
(* of the filesystem they touch (the storage file, its parent directories  *)
(* and the timestamped backup files).                                      *)
(*                                                                         *)
(* File contents are abstracted to a record [kind, doc, fmt]:              *)
(*   kind  what the bytes are: absent (no file), a JSON object, invalid    *)
(*         JSON text, a JSON array, a JSON scalar, zero bytes (a file just *)
(*         truncated by open(.., "w")), or a proper prefix of a dump       *)
(*   doc   the key/value mapping when kind = "object"                      *)
(*   fmt   the textual layout; json.dump(indent=2) always yields           *)
(*         "indent2", json.load discards it, shutil.copy2 keeps it         *)
(* Values produced by os.urandom / uuid.uuid4 are modelled as fresh        *)
(* numbers taken from a counter; 0 stands for any pre-existing value.      *)
(* Keys other than y/n (or 1/2/3) at a prompt are re-read by the prompt    *)
(* loops and change nothing, so only the accepted keys are modelled.       *)
(***************************************************************************)
EXTENDS Integers, FiniteSets, Sequences, TLC

\* ---- bounds -------------------------------------------------------------
MaxClock == 1
MaxResets == 2
MaxRuns == 2

\* ---- documents and file contents -----------------------------------------
MachineId == "telemetry.machineId"
MacMachineId == "telemetry.macMachineId"
DevDeviceId == "telemetry.devDeviceId"
IdKeys == {MachineId, MacMachineId, DevDeviceId}

EmptyDoc == [k \in {} |-> 0]

Absent == [kind |-> "absent", doc |-> EmptyDoc, fmt |-> "none"]
EmptyFile == [kind |-> "empty", doc |-> EmptyDoc, fmt |-> "none"]
PartialFile == [kind |-> "partial", doc |-> EmptyDoc, fmt |-> "none"]
InvalidJson == [kind |-> "invalid", doc |-> EmptyDoc, fmt |-> "none"]
ArrayJson == [kind |-> "array", doc |-> EmptyDoc, fmt |-> "compact"]
ScalarJson == [kind |-> "scalar", doc |-> EmptyDoc, fmt |-> "compact"]

ObjectJson(d, f) == [kind |-> "object", doc |-> d, fmt |-> f]

Exists(c) == c.kind # "absent"

\* json.load: a dict, a non-dict value, or JSONDecodeError
JsonLoad(c) ==
  CASE c.kind = "object" -> [ok |-> TRUE, type |-> "dict", doc |-> c.doc]
    [] c.kind = "array"  -> [ok |-> TRUE, type |-> "list", doc |-> EmptyDoc]
    [] c.kind = "scalar" -> [ok |-> TRUE, type |-> "scalar", doc |-> EmptyDoc]
    [] OTHER             -> [ok |-> FALSE, type |-> "none", doc |-> EmptyDoc]

\* json.dump(data, f, indent=2) of a dict
JsonDump(d) == ObjectJson(d, "indent2")

\* dict.update
UpdateReplacing(d, n) == n

Update(d, n) ==
  [k \in (DOMAIN d) \cup (DOMAIN n) |-> IF k \in DOMAIN n THEN n[k] ELSE d[k]]

\* generate_device_ids: three fresh values per call, g = calls made so far
GenerateDeviceIds(g) ==
  [k \in IdKeys |-> CASE k = MachineId    -> 3 * g + 1
                      [] k = MacMachineId -> 3 * g + 2
                      [] k = DevDeviceId  -> 3 * g + 3]

\* get_storage_file: the outcome for a host environment
Systems == {"ok", "unsupported", "nobase", "nowrite"}

GetStorageFile(e) == IF e = "ok" THEN "path" ELSE "WindsurfResetError"

\* ---- state ---------------------------------------------------------------
VARIABLES
  pc,            \* position of the process in the main loop / reset
  env,           \* host: supported OS with a writable base dir, or not
  dirs,          \* the storage file's parent directories exist
  file,          \* content of the storage file
  backups,       \* timestamp -> content of storage.json.backup_<timestamp>
  now,           \* wall clock, in seconds
  data,          \* reset_windsurf_id's local `data`
  new_ids,       \* reset_windsurf_id's local `new_ids`
  exitCode,      \* -1 while running, else the process exit status
  gen,           \* number of generate_device_ids calls so far
  resets,        \* resets confirmed so far (bounded)
  runs,          \* process runs so far (bounded)
  \* history of the current reset / run, for stating the properties
  pre,           \* filesystem when the current reset started
  asked,         \* answer to the backup prompt: none / yes / no
  backupResult,  \* backup_file of this reset: none / ok / failed
  copied,        \* shutil.copy2 of this reset wrote a file at backup_path
  bslot,         \* timestamp in this reset's backup_path, -1 if none
  result,        \* this reset: none / running / ok / error
  reported,      \* ids shown by display_device_ids(new_ids, ..)
  interrupted,   \* this run was ended by KeyboardInterrupt
  everConfirmed, \* "Are you sure" was answered yes in this run
  lastOp,        \* last menu operation: none / reset / view / declined
  fs0,           \* filesystem when this run started
  made           \* timestamps of the backups a backup_file call completed

vars == <<pc, env, dirs, file, backups, now, data, new_ids, exitCode, gen,
          resets, runs, pre, asked, backupResult, copied, bslot, result,
          reported, interrupted, everConfirmed, lastOp, fs0, made>>

fsVars == <<dirs, file, backups>>
procVars == <<data, new_ids>>
histVars == <<pre, asked, backupResult, copied, bslot, result, reported>>

FS == [dirs |-> dirs, file |-> file, backups |-> backups]

Clock == 0..MaxClock

NoData == [type |-> "dict", doc |-> EmptyDoc]

ResetPcs == {"resolve", "ask_backup", "backup", "mkdir", "load", "generate",
             "save_open", "save_dump", "save_close", "report"}

InitDocs == { EmptyDoc,
              [k \in {"foo"} |-> 0],
              [k \in {"foo", MachineId} |-> 0],
              [k \in {"foo"} \cup IdKeys |-> 0] }

InitContents == { ObjectJson(d, "compact") : d \in InitDocs }
                  \cup {InvalidJson, ArrayJson, ScalarJson}

Init ==
  /\ pc = "menu"
  /\ env \in Systems
  /\ dirs \in BOOLEAN
  /\ file \in {Absent} \cup InitContents
  /\ Exists(file) => dirs
  /\ env = "nobase" => ~dirs
  /\ backups = [t \in Clock |-> Absent]
  /\ now = 0
  /\ data = NoData
  /\ new_ids = EmptyDoc
  /\ exitCode = -1
  /\ gen = 0
  /\ resets = 0
  /\ runs = 1
  /\ pre = [dirs |-> dirs, file |-> file, backups |-> backups]
  /\ asked = "none"
  /\ backupResult = "none"
  /\ copied = FALSE
  /\ bslot = -1
  /\ result = "none"
  /\ reported = EmptyDoc
  /\ interrupted = FALSE
  /\ everConfirmed = FALSE
  /\ lastOp = "none"
  /\ fs0 = [dirs |-> dirs, file |-> file, backups |-> backups]
  /\ made = {}

\* ---- the main loop ---------------------------------------------------------
\* display_menu(): returns "1", "2" or "3"
DisplayMenu(choice) ==
  /\ pc = "menu"
  /\ pc' = CASE choice = "1" -> "confirm_reset"
             [] choice = "2" -> "view"
             [] OTHER        -> "exited"
  /\ exitCode' = IF choice = "3" THEN 0 ELSE exitCode
  /\ UNCHANGED <<env, fsVars, now, procVars, gen, resets, runs, histVars,
                 interrupted, everConfirmed, lastOp, fs0, made>>

\* confirm_action("Are you sure you want to reset your device IDs?")
ConfirmResetIgnored(ans) ==
  /\ pc = "confirm_reset"
  /\ resets < MaxResets
  /\ pc' = "resolve"
  /\ resets' = resets + 1
  /\ everConfirmed' = (everConfirmed \/ ans)
  /\ lastOp' = IF ans THEN "reset" ELSE "declined"
  /\ UNCHANGED <<env, fsVars, now, procVars, exitCode, gen, runs, histVars,
                 interrupted, fs0, made>>

ConfirmReset(ans) ==
  /\ pc = "confirm_reset"
  /\ ans => resets < MaxResets
  /\ pc' = IF ans THEN "resolve" ELSE "another"
  /\ resets' = IF ans THEN resets + 1 ELSE resets
  /\ everConfirmed' = (everConfirmed \/ ans)
  /\ lastOp' = IF ans THEN "reset" ELSE "declined"
  /\ UNCHANGED <<env, fsVars, now, procVars, exitCode, gen, runs, histVars,
                 interrupted, fs0, made>>

\* confirm_action("Would you like to perform another operation?")
ConfirmAnother(ans) ==
  /\ pc = "another"
  /\ pc' = IF ans THEN "menu" ELSE "exited"
  /\ exitCode' = IF ans THEN exitCode ELSE 0
  /\ UNCHANGED <<env, fsVars, now, procVars, gen, resets, runs, histVars,
                 interrupted, everConfirmed, lastOp, fs0, made>>

\* ---- reset_windsurf_id -----------------------------------------------------
\* get_storage_file(), then storage_file.exists()
ResetStart ==
  /\ pc = "resolve"
  /\ pre' = FS
  /\ asked' = "none"
  /\ backupResult' = "none"
  /\ copied' = FALSE
  /\ bslot' = -1
  /\ reported' = EmptyDoc
  /\ IF GetStorageFile(env) = "path"
       THEN /\ pc' = IF Exists(file) THEN "ask_backup" ELSE "mkdir"
            /\ result' = "running"
            /\ exitCode' = exitCode
       ELSE /\ pc' = "exited"
            /\ result' = "error"
            /\ exitCode' = 1
  /\ UNCHANGED <<env, fsVars, now, procVars, gen, resets, runs, interrupted,
                 everConfirmed, lastOp, fs0, made>>

\* confirm_action("Would you like to create a backup before proceeding?")
ConfirmBackupAlways(ans) ==
  /\ pc = "ask_backup"
  /\ asked' = IF ans THEN "yes" ELSE "no"
  /\ pc' = "backup"
  /\ UNCHANGED <<env, fsVars, now, procVars, exitCode, gen, resets, runs,
                 pre, backupResult, copied, bslot, result, reported,
                 interrupted, everConfirmed, lastOp, fs0, made>>

ConfirmBackup(ans) ==
  /\ pc = "ask_backup"
  /\ asked' = IF ans THEN "yes" ELSE "no"
  /\ pc' = IF ans THEN "backup" ELSE "mkdir"
  /\ UNCHANGED <<env, fsVars, now, procVars, exitCode, gen, resets, runs,
                 pre, backupResult, copied, bslot, result, reported,
                 interrupted, everConfirmed, lastOp, fs0, made>>

\* backup_file(storage_file): shutil.copy2 to storage.json.backup_<now>
BackupFileTruncating ==
  /\ pc = "backup"
  /\ bslot' = now
  /\ backups' = [backups EXCEPT ![now] = EmptyFile]
  /\ copied' = TRUE
  /\ made' = made \cup {now}
  /\ backupResult' = "ok"
  /\ pc' = "mkdir"
  /\ UNCHANGED <<env, dirs, file, now, procVars, exitCode, gen, resets, runs,
                 pre, asked, result, reported, interrupted, everConfirmed,
                 lastOp, fs0>>

BackupFile ==
  /\ pc = "backup"
  /\ IF Exists(file)
       THEN /\ bslot' = now
            /\ backups' = [backups EXCEPT ![now] = file]
            /\ copied' = TRUE
            /\ made' = made \cup {now}
       ELSE UNCHANGED <<bslot, backups, copied, made>>
  /\ backupResult' = "ok"
  /\ pc' = "mkdir"
  /\ UNCHANGED <<env, dirs, file, now, procVars, exitCode, gen, resets, runs,
                 pre, asked, result, reported, interrupted, everConfirmed,
                 lastOp, fs0>>

\* backup_file raising: shutil.copy2 failed before creating the destination
\* ("nothing"), while writing it ("partial"), or in copystat after the bytes
\* were copied ("copied"); the WindsurfResetError reaches the top level
CopyOutcomes == {"nothing", "partial", "copied"}

BackupFileFailsSwallowed(outcome) ==
  /\ pc = "backup"
  /\ Exists(file)
  /\ bslot' = now
  /\ backups' = CASE outcome = "nothing" -> backups
                  [] outcome = "partial" -> [backups EXCEPT ![now] = PartialFile]
                  [] OTHER               -> [backups EXCEPT ![now] = file]
  /\ copied' = (outcome # "nothing")
  /\ backupResult' = "failed"
  /\ pc' = "mkdir"
  /\ UNCHANGED <<env, dirs, file, now, procVars, exitCode, gen, resets, runs,
                 pre, asked, result, reported, interrupted, everConfirmed,
                 lastOp, fs0, made>>

BackupFileFails(outcome) ==
  /\ pc = "backup"
  /\ Exists(file)
  /\ bslot' = now
  /\ backups' = CASE outcome = "nothing" -> backups
                  [] outcome = "partial" -> [backups EXCEPT ![now] = PartialFile]
                  [] OTHER               -> [backups EXCEPT ![now] = file]
  /\ copied' = (outcome # "nothing")
  /\ backupResult' = "failed"
  /\ result' = "error"
  /\ pc' = "exited"
  /\ exitCode' = 1
  /\ UNCHANGED <<env, dirs, file, now, procVars, gen, resets, runs, pre,
                 asked, reported, interrupted, everConfirmed, lastOp, fs0, made>>

\* storage_file.parent.mkdir(parents=True, exist_ok=True)
MakeDirs ==
  /\ pc = "mkdir"
  /\ dirs' = TRUE
  /\ pc' = "load"
  /\ UNCHANGED <<env, file, backups, now, procVars, exitCode, gen, resets,
                 runs, histVars, interrupted, everConfirmed, lastOp, fs0, made>>

\* data = {}; if exists: try json.load except JSONDecodeError: warn
LoadConfigStrict ==
  /\ pc = "load"
  /\ LET r == JsonLoad(file) IN
       IF Exists(file) /\ ~r.ok
         THEN /\ pc' = "exited"
              /\ result' = "error"
              /\ exitCode' = 1
              /\ data' = data
         ELSE /\ pc' = "generate"
              /\ data' = IF Exists(file) THEN [type |-> r.type, doc |-> r.doc]
                                         ELSE NoData
              /\ UNCHANGED <<result, exitCode>>
  /\ UNCHANGED <<env, fsVars, now, new_ids, gen, resets, runs, pre, asked,
                 backupResult, copied, bslot, reported, interrupted,
                 everConfirmed, lastOp, fs0, made>>

LoadConfig ==
  /\ pc = "load"
  /\ LET r == JsonLoad(file) IN
       data' = IF Exists(file) /\ r.ok THEN [type |-> r.type, doc |-> r.doc]
                                       ELSE NoData
  /\ pc' = "generate"
  /\ UNCHANGED <<env, fsVars, now, new_ids, exitCode, gen, resets, runs,
                 histVars, interrupted, everConfirmed, lastOp, fs0, made>>

\* new_ids = generate_device_ids(); data.update(new_ids)
\* (a list or scalar has no update(): AttributeError -> "Unexpected error")
GenerateAndUpdate ==
  /\ pc = "generate"
  /\ new_ids' = GenerateDeviceIds(gen)
  /\ gen' = gen + 1
  /\ IF data.type = "dict"
       THEN /\ data' = [type |-> "dict", doc |-> Update(data.doc, new_ids')]
            /\ pc' = "save_open"
            /\ UNCHANGED <<result, exitCode>>
       ELSE /\ data' = data
            /\ pc' = "exited"
            /\ result' = "error"
            /\ exitCode' = 1
  /\ UNCHANGED <<env, fsVars, now, resets, runs, pre, asked, backupResult,
                 copied, bslot, reported, interrupted, everConfirmed, lastOp,
                 fs0, made>>

\* open(storage_file, "w"): the file is truncated
SaveOpen ==
  /\ pc = "save_open"
  /\ file' = EmptyFile
  /\ pc' = "save_dump"
  /\ UNCHANGED <<env, dirs, backups, now, procVars, exitCode, gen, resets,
                 runs, histVars, interrupted, everConfirmed, lastOp, fs0, made>>

\* json.dump(data, f, indent=2): chunks go to the buffered file; the bytes
\* on disk are still none, or a prefix once the buffer was flushed
SaveDump ==
  /\ pc = "save_dump"
  /\ file' \in {EmptyFile, PartialFile}
  /\ pc' = "save_close"
  /\ UNCHANGED <<env, dirs, backups, now, procVars, exitCode, gen, resets,
                 runs, histVars, interrupted, everConfirmed, lastOp, fs0, made>>

\* leaving the with block: flush and close
SaveClose ==
  /\ pc = "save_close"
  /\ file' = JsonDump(data.doc)
  /\ pc' = "report"
  /\ UNCHANGED <<env, dirs, backups, now, procVars, exitCode, gen, resets,
                 runs, histVars, interrupted, everConfirmed, lastOp, fs0, made>>

\* success panel, display_device_ids(new_ids, ..), return True
Report ==
  /\ pc = "report"
  /\ reported' = new_ids
  /\ result' = "ok"
  /\ pc' = "another"
  /\ UNCHANGED <<env, fsVars, now, procVars, exitCode, gen, resets, runs,
                 pre, asked, backupResult, copied, bslot, interrupted,
                 everConfirmed, lastOp, fs0, made>>

\* ---- view_current_config ---------------------------------------------------
\* every exception (path resolution, decode error, non-dict .items()) is
\* caught and printed; the function only reads
ViewCurrentConfigCreating ==
  /\ pc = "view"
  /\ pc' = "another"
  /\ lastOp' = "view"
  /\ dirs' = TRUE
  /\ UNCHANGED <<env, file, backups, now, procVars, exitCode, gen, resets,
                 runs, histVars, interrupted, everConfirmed, fs0, made>>

ViewCurrentConfig ==
  /\ pc = "view"
  /\ pc' = "another"
  /\ lastOp' = "view"
  /\ UNCHANGED <<env, fsVars, now, procVars, exitCode, gen, resets, runs,
                 histVars, interrupted, everConfirmed, fs0, made>>

\* ---- environment -----------------------------------------------------------
\* KeyboardInterrupt (not an Exception: only the top level catches it, prints
\* the cancellation notice and calls exit(1)).  Inside the with block of the
\* save, file.close() still flushes what was buffered: nothing or a prefix
\* while dumping, everything once the dump has returned.  Inside shutil.copy2
\* the destination may not exist yet, hold a prefix, or hold all the bytes.
Interrupt ==
  /\ pc # "exited"
  /\ file' \in CASE pc = "save_dump"  -> {EmptyFile, PartialFile}
                 [] pc = "save_close" -> {JsonDump(data.doc)}
                 [] OTHER             -> {file}
  /\ IF pc = "backup"
       THEN \E o \in CopyOutcomes :
              /\ backups' = CASE o = "nothing" -> backups
                              [] o = "partial" -> [backups EXCEPT ![now] = PartialFile]
                              [] OTHER         -> [backups EXCEPT ![now] = file]
              /\ copied' = (o # "nothing")
              /\ bslot' = now
       ELSE UNCHANGED <<backups, copied, bslot>>
  /\ interrupted' = TRUE
  /\ pc' = "exited"
  /\ exitCode' = 1
  /\ UNCHANGED <<env, dirs, now, procVars, gen, resets, runs, pre, asked,
                 backupResult, result, reported, everConfirmed, lastOp, fs0, made>>

\* a second passes
Tick ==
  /\ now < MaxClock
  /\ now' = now + 1
  /\ UNCHANGED <<pc, env, fsVars, procVars, exitCode, gen, resets, runs,
                 histVars, interrupted, everConfirmed, lastOp, fs0, made>>

\* the tool is started again later
Restart ==
  /\ pc = "exited"
  /\ runs < MaxRuns
  /\ runs' = runs + 1
  /\ pc' = "menu"
  /\ exitCode' = -1
  /\ data' = NoData
  /\ new_ids' = EmptyDoc
  /\ pre' = FS
  /\ asked' = "none"
  /\ backupResult' = "none"
  /\ copied' = FALSE
  /\ bslot' = -1
  /\ result' = "none"
  /\ reported' = EmptyDoc
  /\ interrupted' = FALSE
  /\ everConfirmed' = FALSE
  /\ lastOp' = "none"
  /\ fs0' = FS
  /\ UNCHANGED <<env, fsVars, now, gen, resets, made>>

Next ==
  \/ \E c \in {"1", "2", "3"} : DisplayMenu(c)
  \/ \E a \in BOOLEAN : ConfirmReset(a)
  \/ \E a \in BOOLEAN : ConfirmAnother(a)
  \/ ResetStart
  \/ \E a \in BOOLEAN : ConfirmBackup(a)
  \/ BackupFile
  \/ \E o \in CopyOutcomes : BackupFileFails(o)
  \/ MakeDirs
  \/ LoadConfig
  \/ GenerateAndUpdate
  \/ SaveOpen
  \/ SaveDump
  \/ SaveClose
  \/ Report
  \/ ViewCurrentConfig
  \/ Interrupt
  \/ Tick
  \/ Restart

Spec == Init /\ [][Next]_vars

\* ---- properties -------------------------------------------------------------
Resolved == GetStorageFile(env) = "path"

PipelinePcs == {"mkdir", "load", "generate", "save_open", "save_dump",
                "save_close", "report"}

MissingOrInvalid(c) == c.kind \in {"absent", "invalid", "empty", "partial"}

\* C1: when the user accepted the backup and backup_file raised, the reset
\* is aborted with a WindsurfResetError (the process exits with status 1)
\* and the storage file still holds the content it had before the reset.
C1_FailedBackupAbortsReset ==
  backupResult = "failed" =>
    /\ asked = "yes"
    /\ pc = "exited"
    /\ result = "error"
    /\ exitCode = 1
    /\ file = pre.file
    /\ dirs = pre.dirs

C1_Witness ==
  /\ backupResult = "failed"
  /\ pc = "exited"
  /\ pre.file.kind = "object"
  /\ file = pre.file

\* C2: after a successful reset of a storage file that held a JSON object,
\* the saved document holds the three identifiers generated in this reset
\* (the ones shown to the user) and every key of the loaded document, the
\* keys other than the three identifiers with their values unchanged.
C2_MergePreservesOtherKeys ==
  (result = "ok" /\ pre.file.kind = "object") =>
    /\ file.kind = "object"
    /\ new_ids = GenerateDeviceIds(gen - 1)
    /\ reported = new_ids
    /\ \A k \in IdKeys : k \in DOMAIN file.doc /\ file.doc[k] = new_ids[k]
    /\ \A k \in DOMAIN pre.file.doc :
         /\ k \in DOMAIN file.doc
         /\ k \notin IdKeys => file.doc[k] = pre.file.doc[k]

C2_Witness ==
  /\ result = "ok"
  /\ pre.file.kind = "object"
  /\ DOMAIN pre.file.doc = {"foo", MachineId}
  /\ file.doc["foo"] = pre.file.doc["foo"]
  /\ file.doc[MachineId] # pre.file.doc[MachineId]

\* C3: when the user accepted the backup, the storage file is not
\* overwritten before the backup file exists, and the backup holds the
\* content the storage file had before this reset, also after the save.
C3_BackupBeforeOverwrite ==
  asked = "yes" =>
    /\ (pc \in PipelinePcs \/ result = "ok" \/ file # pre.file) =>
         /\ backupResult = "ok"
         /\ bslot \in Clock
         /\ backups[bslot] = pre.file
    /\ backupResult = "ok" => backups[bslot] = pre.file

C3_Witness ==
  /\ asked = "yes"
  /\ result = "ok"
  /\ file # pre.file
  /\ file.kind = "object"
  /\ backups[bslot] = pre.file
  /\ backups[bslot] # file

\* C4: a reset writes a backup file only if the storage file existed when
\* the reset started and the user answered yes, and it does write one (a
\* copy of the storage file) whenever that is so and backup_file returns;
\* with the file absent no prompt is asked and no backup is made; after a
\* no the reset goes on to the directory, load, merge and save steps and
\* no backup file is made.
C4_BackupIffExistsAndYes ==
  /\ copied => (Exists(pre.file) /\ asked = "yes")
  /\ (~copied /\ result # "none") => backups = pre.backups
  /\ (Exists(pre.file) /\ asked = "yes" /\ backupResult = "ok") =>
       (copied /\ backups[bslot] = pre.file)
  /\ result = "ok" => (copied <=> (Exists(pre.file) /\ asked = "yes"))
  /\ (result # "none" /\ ~Exists(pre.file)) =>
       (asked = "none" /\ backups = pre.backups)
  /\ asked = "no" =>
       /\ backupResult = "none"
       /\ backups = pre.backups
       /\ (result = "running" /\ ~interrupted) => pc \in PipelinePcs

C4_Witness ==
  /\ Exists(pre.file)
  /\ asked = "no"
  /\ result = "ok"
  /\ file # pre.file
  /\ backups = pre.backups

\* C5: a storage file holding valid JSON that is not an object is reset to
\* an empty object: the reset does not fail and the saved document holds
\* exactly the three generated identifiers.
C5_NonObjectResetsToEmpty ==
  (pre.file.kind \in {"array", "scalar"} /\ Resolved
     /\ backupResult # "failed") =>
    /\ result # "error"
    /\ result = "ok" => file = JsonDump(new_ids)

\* C6: with the storage file missing or holding invalid JSON text, loading
\* yields the empty document and raises nothing, and the reset that
\* completes has created the parent directories and saved a document with
\* exactly the three generated identifiers.
C6_MissingOrInvalidStartsEmpty ==
  (MissingOrInvalid(pre.file) /\ Resolved /\ result # "none") =>
    /\ pc = "generate" => data = NoData
    /\ pc \in {"save_open", "save_dump", "save_close", "report"} =>
         (dirs /\ data.doc = new_ids)
    /\ result = "error" => backupResult = "failed"
    /\ result = "ok" =>
         /\ dirs
         /\ file = JsonDump(new_ids)
         /\ DOMAIN file.doc = IdKeys
         /\ new_ids = GenerateDeviceIds(gen - 1)

C6_Witness ==
  /\ pre.file.kind = "invalid"
  /\ result = "ok"
  /\ file = JsonDump(new_ids)

C6_WitnessMissing ==
  /\ ~pre.dirs
  /\ pre.file.kind = "absent"
  /\ result = "ok"
  /\ dirs
  /\ file = JsonDump(new_ids)

\* C7: a backup file that backup_file has created is never overwritten,
\* modified or deleted by a later step, also when two backups are taken in
\* the same second.  (Stated for the steps in which nothing fails: no
\* interrupt and no failing copy is needed to break it.)
C7_BackupsNeverChange ==
  [][(backupResult' # "failed" /\ ~interrupted') =>
       \A t \in made : backups'[t] = backups[t]]_vars

\* C8: a run ended by a keyboard interrupt exits with status 1 and leaves
\* the storage file with its content from before the reset or with the
\* complete newly saved document.
C8_InterruptLeavesOldOrNew ==
  (pc = "exited" /\ interrupted) =>
    /\ exitCode = 1
    /\ (file = pre.file \/ file = JsonDump(data.doc))

\* C9: view_current_config leaves the storage file, its parent directories
\* and the backup files as they were, whatever the file holds and whatever
\* path resolution yields.
C9_ViewIsReadOnly ==
  [][pc = "view" => UNCHANGED fsVars]_vars

C9_Witness ==
  /\ lastOp = "view"
  /\ pc = "another"
  /\ file.kind \in {"array", "invalid"}
  /\ FS = fs0

\* C10: in a run where the user never answered yes to "Are you sure", the
\* storage file, the directories and the backup files are as they were when
\* the run started.
C10_NoChangeWithoutConfirmation ==
  ~everConfirmed => FS = fs0

C10_Witness ==
  /\ lastOp = "declined"
  /\ ~everConfirmed
  /\ pc = "exited"
  /\ exitCode = 0
  /\ Exists(file)
  /\ FS = fs0

====
